---- MODULE Spec2Model ----
(***************************************************************************)
(* Model of migrate-logger.py: a batch script that rewrites a fixed list   *)
(* of source files, replacing console.<level>( calls by logger calls,      *)
(* injecting a logger import and writing a .bak copy of each file first.   *)
(*                                                                         *)
(* Text is modelled as a sequence of tokens.  A token is a piece of text   *)
(* that the script's patterns either match whole or not at all, so that    *)
(* substring search on the text is subsequence search on the tokens.       *)
(***************************************************************************)
EXTENDS Integers, Sequences, FiniteSets, TLC

VARIABLES
    manifest,   \* FILES_TO_MIGRATE: the paths, in processing order
    linesep,    \* os.linesep of the platform the script runs on
    disk,       \* disk[i]: bytes of the file manifest[i], or Missing
    bak,        \* bak[i]: bytes of manifest[i] + '.bak', or Missing
    pc,         \* position of the control thread
    idx,        \* main: index of the entry of the for loop
    content,    \* migrate_file: the local `content`
    total,      \* main: total
    migrated,   \* main: migrated
    skipped,    \* main: skipped
    run,        \* number of invocations of the script so far
    scope,      \* last value returned by get_scope
    orig,       \* history: disk before the first invocation
    startDisk,  \* history: disk when the current invocation started
    startBak,   \* history: bak when the current invocation started
    outcome,    \* history: what the current invocation printed for entry i
    prevOutcome,\* history: outcome of the previous invocation
    prevDone,   \* history: the previous invocation ran to its summary
    failedAt    \* history: entry at which an I/O error was raised, or 0

vars == <<manifest, linesep, disk, bak, pc, idx, content, total, migrated,
          skipped, run, scope, orig, startDisk, startBak, outcome,
          prevOutcome, prevDone, failedAt>>

---------------------------------------------------------------------------
(* Bounds of the model. *)

\* number of manifest entries of a batch
NumEntries == 2
\* number of invocations of the script in a behaviour
MaxRuns == 2
\* number of pieces a generated file content is made of
MaxLen == 3
\* number of directories of a generated path
MaxDepth == 3

---------------------------------------------------------------------------
(* Tokens. *)

LF == "LF"
CR == "CR"
SP == " "
IMPORT == "import "
TYPE == "type"
PAREN == "("
SLASH == "/"
EXT == ".ts"
SQ_LOGGER == "'@/lib/logger'"
DQ_LOGGER == "\"@/lib/logger\""
\* the state of a path at which no file exists (no file content holds this token)
Missing == <<"ENOENT">>
None == <<>>

---------------------------------------------------------------------------
(* Text helpers: Python's str operations on token sequences. *)

\* s[i:] starts with pat
StartsAt(s, i, pat) ==
    /\ i + Len(pat) - 1 <= Len(s)
    /\ \A k \in 1..Len(pat) : s[i + k - 1] = pat[k]

\* pat in s
Contains(s, pat) == \E i \in 1..(Len(s) + 1) : StartsAt(s, i, pat)

\* number of occurrences of pat in s (no pattern used overlaps itself)
Count(s, pat) == Cardinality({i \in 1..Len(s) : StartsAt(s, i, pat)})

\* s.replace(a, b) for single tokens
ReplaceTok(s, a, b) == [k \in 1..Len(s) |-> IF s[k] = a THEN b ELSE s[k]]

RECURSIVE ReSubFrom(_, _, _, _)
ReSubFrom(s, i, pat, repl) ==
    IF i > Len(s) THEN <<>>
    ELSE IF StartsAt(s, i, pat)
         THEN repl \o ReSubFrom(s, i + Len(pat), pat, repl)
         ELSE <<s[i]>> \o ReSubFrom(s, i + 1, pat, repl)

RECURSIVE ReSubFirstFrom(_, _, _, _)
ReSubFirstFrom(s, i, pat, repl) ==
    IF i > Len(s) THEN <<>>
    ELSE IF StartsAt(s, i, pat)
         THEN repl \o SubSeq(s, i + Len(pat), Len(s))
         ELSE <<s[i]>> \o ReSubFirstFrom(s, i + 1, pat, repl)

\* re.sub(pat, repl, s, count=1): only the leftmost match
ReSubFirst(s, pat, repl) == ReSubFirstFrom(s, 1, pat, repl)

\* re.sub(pat, repl, s): every leftmost non-overlapping match is replaced
ReSub(s, pat, repl) == ReSubFrom(s, 1, pat, repl)

RECURSIVE SplitFrom(_, _, _)
SplitFrom(s, i, sep) ==
    LET ends == {k \in i..Len(s) : s[k] = sep}
    IN  IF ends = {} THEN <<SubSeq(s, i, Len(s))>>
        ELSE LET k == CHOOSE e \in ends : \A f \in ends : e <= f
             IN  <<SubSeq(s, i, k - 1)>> \o SplitFrom(s, k + 1, sep)

\* s.split(sep) for a one-token separator
Split(s, sep) == SplitFrom(s, 1, sep)

RECURSIVE Join(_, _)
\* sep.join(parts)
Join(parts, sep) ==
    IF Len(parts) = 0 THEN <<>>
    ELSE IF Len(parts) = 1 THEN parts[1]
    ELSE parts[1] \o <<sep>> \o Join(Tail(parts), sep)

\* line.strip(): leading and trailing whitespace removed.  The token
\* "import " ends in a blank, which strip() removes when nothing follows it.
Strip(line) ==
    LET ink == {k \in 1..Len(line) : line[k] # SP}
    IN  IF ink = {} THEN <<>>
        ELSE LET a == CHOOSE k \in ink : \A j \in ink : k <= j
                 b == CHOOSE k \in ink : \A j \in ink : k >= j
                 t == SubSeq(line, a, b)
             IN  IF t[Len(t)] = IMPORT
                 THEN SubSeq(t, 1, Len(t) - 1) \o <<"import">>
                 ELSE t

---------------------------------------------------------------------------
(* get_scope *)

\* Path(filepath).name: the last component, trailing separators dropped
PathName(filepath) ==
    LET ink == {k \in 1..Len(filepath) : filepath[k] # SLASH}
    IN  IF ink = {} THEN <<>>
        ELSE LET b == CHOOSE k \in ink : \A j \in ink : k >= j
                 sl == {k \in 1..b : filepath[k] = SLASH}
                 a == IF sl = {} THEN 1
                      ELSE 1 + CHOOSE k \in sl : \A j \in sl : k >= j
             IN  SubSeq(filepath, a, b)

\* Path(filepath).stem: the name without its last suffix; a name that only
\* starts with a dot has no suffix
PathStem(filepath) ==
    LET name == PathName(filepath)
        dots == {k \in 1..Len(name) : name[k] = EXT}
    IN  IF dots = {} THEN name
        ELSE LET p == CHOOSE k \in dots : \A j \in dots : k >= j
             IN  IF p > 1 THEN SubSeq(name, 1, p - 1) ELSE name

API_ROOT == <<"src", SLASH, "app", SLASH, "api", SLASH>>

\* the longest run of [^/] tokens of s starting at i (empty when there is none)
RunEnd(s, i) ==
    LET stops == {k \in i..Len(s) : s[k] = SLASH}
    IN  IF stops = {} THEN Len(s)
        ELSE (CHOOSE k \in stops : \A j \in stops : k <= j) - 1

\* re.search(r'src/app/api/([^/]+(?:/[^/]+)?)', filepath).group(1), or None
ApiRouteMatch(filepath) ==
    LET hits == {i \in 1..Len(filepath) :
                    /\ StartsAt(filepath, i, API_ROOT)
                    /\ RunEnd(filepath, i + Len(API_ROOT)) >= i + Len(API_ROOT)}
    IN  IF hits = {} THEN None
        ELSE LET i  == CHOOSE h \in hits : \A g \in hits : h <= g
                 a  == i + Len(API_ROOT)
                 e1 == RunEnd(filepath, a)
                 e2 == IF e1 + 1 <= Len(filepath) /\ RunEnd(filepath, e1 + 2) >= e1 + 2
                       THEN RunEnd(filepath, e1 + 2)
                       ELSE e1
             IN  SubSeq(filepath, a, e2)

\* get_scope with the generic service rule tested before the validation rule
get_scope_service_first(filepath) ==
    IF Contains(filepath, <<"api", SLASH>>)
    THEN LET match == ApiRouteMatch(filepath)
         IN  IF match # None
             THEN <<"api:">> \o ReplaceTok(match, SLASH, ":")
             ELSE <<"api:unknown">>
    ELSE IF Contains(filepath, <<"services", SLASH>>)
    THEN <<"service:">> \o PathStem(filepath)
    ELSE IF Contains(filepath, <<"services", SLASH>>)
            /\ Contains(filepath, <<"ValidationService">>)
    THEN <<"validation:">> \o PathStem(filepath)
    ELSE IF Contains(filepath, <<"domain", SLASH, "entities", SLASH>>)
    THEN <<"domain:entity:">> \o PathStem(filepath)
    ELSE IF Contains(filepath, <<"domain", SLASH, "value-objects", SLASH>>)
    THEN <<"domain:vo:">> \o PathStem(filepath)
    ELSE IF Contains(filepath, <<"repositories", SLASH>>)
    THEN <<"repository:">> \o PathStem(filepath)
    ELSE IF Contains(filepath, <<"config", SLASH>>)
    THEN <<"config:">> \o PathStem(filepath)
    ELSE None

get_scope(filepath) ==
    IF Contains(filepath, <<"api", SLASH>>)
    THEN LET match == ApiRouteMatch(filepath)
         IN  IF match # None
             THEN <<"api:">> \o ReplaceTok(match, SLASH, ":")
             ELSE <<"api:unknown">>
    ELSE IF Contains(filepath, <<"services", SLASH>>)
            /\ Contains(filepath, <<"ValidationService">>)
    THEN <<"validation:">> \o PathStem(filepath)
    ELSE IF Contains(filepath, <<"services", SLASH>>)
    THEN <<"service:">> \o PathStem(filepath)
    ELSE IF Contains(filepath, <<"domain", SLASH, "entities", SLASH>>)
    THEN <<"domain:entity:">> \o PathStem(filepath)
    ELSE IF Contains(filepath, <<"domain", SLASH, "value-objects", SLASH>>)
    THEN <<"domain:vo:">> \o PathStem(filepath)
    ELSE IF Contains(filepath, <<"repositories", SLASH>>)
    THEN <<"repository:">> \o PathStem(filepath)
    ELSE IF Contains(filepath, <<"config", SLASH>>)
    THEN <<"config:">> \o PathStem(filepath)
    ELSE None

---------------------------------------------------------------------------
(* Text-mode file I/O: open(path, 'r') and open(path, 'w'). *)

RECURSIVE DecodeFrom(_, _)
DecodeFrom(b, i) ==
    IF i > Len(b) THEN <<>>
    ELSE IF b[i] = CR
         THEN <<LF>> \o DecodeFrom(b, IF i < Len(b) /\ b[i + 1] = LF THEN i + 2 ELSE i + 1)
         ELSE <<b[i]>> \o DecodeFrom(b, i + 1)

\* f.read() in text mode: universal newlines, "\r\n" and "\r" are read as "\n"
Decode(bytes) == DecodeFrom(bytes, 1)

RECURSIVE Encode(_)
\* f.write(text) in text mode: every "\n" is written as os.linesep
Encode(text) ==
    IF Len(text) = 0 THEN <<>>
    ELSE (IF Head(text) = LF THEN linesep ELSE <<Head(text)>>) \o Encode(Tail(text))

\* what a write that raises may leave in the file: the old state when open()
\* failed, else the file truncated by open() and a part of the data flushed
FailedWrite(old, bytes) ==
    {old} \cup {SubSeq(bytes, 1, n) : n \in 0..(Len(bytes) - 1)}

---------------------------------------------------------------------------
(* migrate_file: the checks and the transformation. *)

ConsoleLevels == {"console.log", "console.error", "console.warn",
                  "console.info", "console.debug"}

\* the check that only looks for the double-quoted module name
AlreadyMigratedDoubleQuoted(text) == Contains(text, <<DQ_LOGGER>>)

\* "'@/lib/logger'" in content or '"@/lib/logger"' in content
AlreadyMigrated(text) ==
    Contains(text, <<SQ_LOGGER>>) \/ Contains(text, <<DQ_LOGGER>>)

\* re.search(r'console\.(log|error|warn|info|debug)', content)
HasConsole(text) == \E t \in ConsoleLevels : Contains(text, <<t>>)

import_statement(sc) ==
    IF sc # None
    THEN <<IMPORT, "{ createScopedLogger } from ", SQ_LOGGER, LF, LF,
           "const logger = createScopedLogger('">> \o sc \o <<"')", LF>>
    ELSE <<IMPORT, "{ logger } from ", SQ_LOGGER, LF>>

\* line.strip().startswith('import ') and 'type' not in line
IsImportLine(line) ==
    /\ StartsAt(Strip(line), 1, <<IMPORT>>)
    /\ ~Contains(line, <<TYPE>>)

\* last_import_idx + 1: the number of lines up to the last import line, 0 if none
LastImport(lines) ==
    LET imps == {k \in 1..Len(lines) : IsImportLine(lines[k])}
    IN  IF imps = {} THEN 0 ELSE CHOOSE k \in imps : \A j \in imps : k >= j

InsertImport(text, stmt) ==
    LET lines == Split(text, LF)
        last  == LastImport(lines)
    IN  IF last >= 1
        THEN Join(SubSeq(lines, 1, last) \o <<stmt>>
                    \o SubSeq(lines, last + 1, Len(lines)), LF)
        ELSE stmt \o <<LF>> \o text

\* the substitution with console.log( replaced once only
SubstituteFirstLog(text) ==
    LET s1 == ReSubFirst(text, <<"console.log", PAREN>>, <<"logger.info", PAREN>>)
        s2 == ReSub(s1, <<"console.error", PAREN>>, <<"logger.error", PAREN>>)
        s3 == ReSub(s2, <<"console.warn", PAREN>>, <<"logger.warn", PAREN>>)
        s4 == ReSub(s3, <<"console.info", PAREN>>, <<"logger.info", PAREN>>)
    IN  ReSub(s4, <<"console.debug", PAREN>>, <<"logger.debug", PAREN>>)

Substitute(text) ==
    LET s1 == ReSub(text, <<"console.log", PAREN>>, <<"logger.info", PAREN>>)
        s2 == ReSub(s1, <<"console.error", PAREN>>, <<"logger.error", PAREN>>)
        s3 == ReSub(s2, <<"console.warn", PAREN>>, <<"logger.warn", PAREN>>)
        s4 == ReSub(s3, <<"console.info", PAREN>>, <<"logger.info", PAREN>>)
    IN  ReSub(s4, <<"console.debug", PAREN>>, <<"logger.debug", PAREN>>)

\* the content migrate_file writes back for `text` read from `filepath`
Transform(filepath, text) ==
    Substitute(InsertImport(text, import_statement(get_scope(filepath))))

---------------------------------------------------------------------------
(* The manifest and the files of a batch. *)

\* entries of FILES_TO_MIGRATE: a hook, a validation service, an API route
\* and a service
FILES_TO_MIGRATE == <<
    <<"src", SLASH, "hooks", SLASH, "useHistory", EXT>>,
    <<"src", SLASH, "features", SLASH, "rates", SLASH, "services", SLASH,
      "Rate", "ValidationService", EXT>>,
    <<"src", SLASH, "app", SLASH, "api", SLASH, "history", SLASH, "route", EXT>>,
    <<"src", SLASH, "services", SLASH, "defiService", EXT>> >>

\* file contents of a batch: no console call; a call and no import; an
\* import line, CRLF line ends and a call; a reference to console.log that
\* is no call, before the import lines and a call
BatchContents == {
    <<"x", LF>>,
    <<"console.log", PAREN, LF>>,
    <<IMPORT, "x", CR, LF, "console.error", PAREN>>,
    <<"console.log", LF, IMPORT, "x", LF, "console.log", PAREN>> }

Entries == 1..Len(manifest)

\* what migrate_file prints for an entry it returns False for
Skips == {"missing", "already", "nomatch"}

\* before the first invocation: the files of the manifest hold any of the
\* contents or do not exist, no backup exists, the platform is POSIX
Init ==
    /\ manifest = SubSeq(FILES_TO_MIGRATE, 1, NumEntries)
    /\ linesep = <<LF>>
    /\ disk \in [1..NumEntries -> BatchContents \cup {Missing}]
    /\ bak = [i \in 1..NumEntries |-> Missing]
    /\ pc = "idle"
    /\ idx = 0
    /\ content = <<>>
    /\ total = 0 /\ migrated = 0 /\ skipped = 0
    /\ run = 0
    /\ scope = None
    /\ orig = disk
    /\ startDisk = disk
    /\ startBak = bak
    /\ outcome = [i \in 1..NumEntries |-> "none"]
    /\ prevOutcome = [i \in 1..NumEntries |-> "none"]
    /\ prevDone = FALSE
    /\ failedAt = 0

---------------------------------------------------------------------------
(* main *)

\* one invocation of the script: main up to its for loop
StartRun ==
    /\ pc \in {"idle", "done", "aborted"}
    /\ run < MaxRuns
    /\ run' = run + 1
    /\ pc' = "loop"
    /\ idx' = 0
    /\ total' = 0 /\ migrated' = 0 /\ skipped' = 0
    /\ content' = <<>>
    /\ scope' = None
    /\ startDisk' = disk
    /\ startBak' = bak
    /\ prevOutcome' = outcome
    /\ prevDone' = (pc = "done")
    /\ outcome' = [i \in Entries |-> "none"]
    /\ failedAt' = 0
    /\ UNCHANGED <<manifest, linesep, disk, bak, orig>>

\* the head of the for loop: the next entry, or the summary
LoopNext ==
    /\ pc = "loop"
    /\ \/ /\ idx < Len(manifest)
          /\ idx' = idx + 1
          /\ total' = total + 1
          /\ pc' = "exists"
       \/ /\ idx = Len(manifest)
          /\ pc' = "done"
          /\ UNCHANGED <<idx, total>>
    /\ UNCHANGED <<manifest, linesep, disk, bak, content, migrated, skipped, run,
                   scope, orig, startDisk, startBak, outcome, prevOutcome,
                   prevDone, failedAt>>

\* a return that is counted as migrated whatever migrate_file returned
ReturnAlwaysMigrated(result) ==
    /\ pc' = "loop"
    /\ content' = <<>>
    /\ migrated' = migrated + 1
    /\ skipped' = skipped
    /\ UNCHANGED <<idx, total>>

\* migrate_file returns `result` to main, which counts it
Return(result) ==
    /\ pc' = "loop"
    /\ content' = <<>>
    /\ IF result
       THEN migrated' = migrated + 1 /\ skipped' = skipped
       ELSE skipped' = skipped + 1 /\ migrated' = migrated
    /\ UNCHANGED <<idx, total>>

\* an I/O error caught per entry: the entry is counted as skipped
RaiseCaught ==
    /\ failedAt' = idx
    /\ pc' = "loop"
    /\ content' = <<>>
    /\ skipped' = skipped + 1
    /\ UNCHANGED <<idx, total, migrated>>

\* an I/O error raised in migrate_file: nothing catches it, the script ends
Raise ==
    /\ failedAt' = idx
    /\ pc' = "aborted"
    /\ content' = <<>>
    /\ UNCHANGED <<idx, total, migrated, skipped>>

---------------------------------------------------------------------------
(* migrate_file *)

CheckExists ==
    /\ pc = "exists"
    /\ \/ /\ disk[idx] = Missing
          /\ outcome' = [outcome EXCEPT ![idx] = "missing"]
          /\ Return(FALSE)
       \/ /\ disk[idx] # Missing
          /\ pc' = "read"
          /\ UNCHANGED <<outcome, content, idx, total, migrated, skipped>>
    /\ UNCHANGED <<manifest, linesep, disk, bak, run, scope, orig, startDisk,
                   startBak, prevOutcome, prevDone, failedAt>>

\* the read with the backup written before the two checks
ReadFileBackupFirst ==
    /\ pc = "read"
    /\ LET text == Decode(disk[idx])
       IN  /\ bak' = [bak EXCEPT ![idx] = Encode(text)]
           /\ \/ /\ AlreadyMigrated(text)
                 /\ outcome' = [outcome EXCEPT ![idx] = "already"]
                 /\ Return(FALSE)
              \/ /\ ~AlreadyMigrated(text)
                 /\ ~HasConsole(text)
                 /\ outcome' = [outcome EXCEPT ![idx] = "nomatch"]
                 /\ Return(FALSE)
              \/ /\ ~AlreadyMigrated(text)
                 /\ HasConsole(text)
                 /\ content' = text
                 /\ pc' = "backup"
                 /\ UNCHANGED <<outcome, idx, total, migrated, skipped>>
    /\ UNCHANGED <<manifest, linesep, disk, run, scope, orig, startDisk,
                   startBak, prevOutcome, prevDone, failedAt>>

\* the file is read and checked: already migrated, nothing to migrate, or on
ReadFile ==
    /\ pc = "read"
    /\ LET text == Decode(disk[idx])
       IN  \/ /\ AlreadyMigrated(text)
              /\ outcome' = [outcome EXCEPT ![idx] = "already"]
              /\ Return(FALSE)
           \/ /\ ~AlreadyMigrated(text)
              /\ ~HasConsole(text)
              /\ outcome' = [outcome EXCEPT ![idx] = "nomatch"]
              /\ Return(FALSE)
           \/ /\ ~AlreadyMigrated(text)
              /\ HasConsole(text)
              /\ content' = text
              /\ pc' = "backup"
              /\ UNCHANGED <<outcome, idx, total, migrated, skipped>>
    /\ UNCHANGED <<manifest, linesep, disk, bak, run, scope, orig, startDisk,
                   startBak, prevOutcome, prevDone, failedAt>>

\* open() or read() raises
ReadFail ==
    /\ pc = "read"
    /\ Raise
    /\ UNCHANGED <<manifest, linesep, disk, bak, run, scope, orig, startDisk,
                   startBak, outcome, prevOutcome, prevDone>>

Backup ==
    /\ pc = "backup"
    /\ bak' = [bak EXCEPT ![idx] = Encode(content)]
    /\ pc' = "write"
    /\ UNCHANGED <<manifest, linesep, disk, idx, content, total, migrated,
                   skipped, run, scope, orig, startDisk, startBak, outcome,
                   prevOutcome, prevDone, failedAt>>

\* the write of the backup raises
BackupFail ==
    /\ pc = "backup"
    /\ \E left \in FailedWrite(bak[idx], Encode(content)) :
          bak' = [bak EXCEPT ![idx] = left]
    /\ Raise
    /\ UNCHANGED <<manifest, linesep, disk, run, scope, orig, startDisk,
                   startBak, outcome, prevOutcome, prevDone>>

\* the import is added, the calls are replaced, the file is written back
WriteBack ==
    /\ pc = "write"
    /\ scope' = get_scope(manifest[idx])
    /\ disk' = [disk EXCEPT ![idx] = Encode(Transform(manifest[idx], content))]
    /\ outcome' = [outcome EXCEPT ![idx] = "migrated"]
    /\ Return(TRUE)
    /\ UNCHANGED <<manifest, linesep, bak, run, orig, startDisk, startBak,
                   prevOutcome, prevDone, failedAt>>

\* the write back raises
WriteBackFail ==
    /\ pc = "write"
    /\ scope' = get_scope(manifest[idx])
    /\ \E left \in FailedWrite(disk[idx], Encode(Transform(manifest[idx], content))) :
          disk' = [disk EXCEPT ![idx] = left]
    /\ Raise
    /\ UNCHANGED <<manifest, linesep, bak, run, orig, startDisk, startBak,
                   outcome, prevOutcome, prevDone>>

Next ==
    \/ StartRun
    \/ LoopNext
    \/ CheckExists
    \/ ReadFile
    \/ ReadFail
    \/ Backup
    \/ BackupFail
    \/ WriteBack
    \/ WriteBackFail

Spec == Init /\ [][Next]_vars

---------------------------------------------------------------------------
(* One file of any content, migrated by one invocation without I/O errors. *)

\* the pieces a generated content is made of: calls, a reference to
\* console.log that is no call, a logger call, an import line, a type-only
\* import, an import that mentions "type", line ends, blanks, other text and
\* the two spellings of the logger module
Pieces == {
    <<"console.log", PAREN>>, <<"console.info", PAREN>>,
    <<"console.error", PAREN>>, <<"console.warn", PAREN>>,
    <<"console.debug", PAREN>>, <<"console.log">>,
    <<"logger.info", PAREN>>,
    <<IMPORT, "x">>, <<IMPORT, TYPE, SP, "x">>, <<IMPORT, "x", TYPE>>,
    <<LF>>, <<CR>>, <<SP>>, <<"x">>, <<SQ_LOGGER>>, <<DQ_LOGGER>> }

RECURSIVE Flatten(_)
Flatten(seqs) ==
    IF Len(seqs) = 0 THEN <<>> ELSE Head(seqs) \o Flatten(Tail(seqs))

GenContents ==
    {Flatten(ps) : ps \in UNION {[1..n -> Pieces] : n \in 0..MaxLen}}

\* one entry, with or without a scope, of any generated content, on a
\* platform whose line separator is "\n" or "\r\n"
InitFile ==
    /\ manifest \in {<<FILES_TO_MIGRATE[1]>>, <<FILES_TO_MIGRATE[2]>>}
    /\ linesep \in {<<LF>>, <<CR, LF>>}
    /\ disk \in [{1} -> GenContents \cup {Missing}]
    /\ bak = [i \in {1} |-> Missing]
    /\ pc = "idle"
    /\ idx = 0
    /\ content = <<>>
    /\ total = 0 /\ migrated = 0 /\ skipped = 0
    /\ run = 0
    /\ scope = None
    /\ orig = disk
    /\ startDisk = disk
    /\ startBak = bak
    /\ outcome = [i \in {1} |-> "none"]
    /\ prevOutcome = [i \in {1} |-> "none"]
    /\ prevDone = FALSE
    /\ failedAt = 0

StartFirstRun == run = 0 /\ StartRun

NextFile ==
    \/ StartFirstRun
    \/ LoopNext
    \/ CheckExists
    \/ ReadFile
    \/ Backup
    \/ WriteBack

SpecFile == InitFile /\ [][NextFile]_vars

---------------------------------------------------------------------------
(* get_scope applied to any path. *)

DirNames == {<<"src">>, <<"app">>, <<"api">>, <<"x", "api">>, <<"services">>,
             <<"domain">>, <<"entities">>, <<"value-objects">>,
             <<"repositories">>, <<"config">>, <<"x">>}

FileNames == {<<"x", EXT>>, <<"x", "ValidationService", EXT>>,
              <<"ValidationService">>, <<"x", EXT, EXT>>}

GenPaths ==
    {Flatten([k \in 1..Len(ds) |-> ds[k] \o <<SLASH>>]) \o f :
        ds \in UNION {[1..n -> DirNames] : n \in 0..MaxDepth}, f \in FileNames}

InitScope ==
    /\ manifest \in {<<p>> : p \in GenPaths}
    /\ linesep = <<LF>>
    /\ disk = [i \in {1} |-> Missing]
    /\ bak = [i \in {1} |-> Missing]
    /\ pc = "idle"
    /\ idx = 1
    /\ content = <<>>
    /\ total = 0 /\ migrated = 0 /\ skipped = 0
    /\ run = 0
    /\ scope = None
    /\ orig = disk
    /\ startDisk = disk
    /\ startBak = bak
    /\ outcome = [i \in {1} |-> "none"]
    /\ prevOutcome = [i \in {1} |-> "none"]
    /\ prevDone = FALSE
    /\ failedAt = 0

\* scope = get_scope(filepath)
GetScope ==
    /\ pc = "idle"
    /\ scope' = get_scope(manifest[idx])
    /\ pc' = "scoped"
    /\ UNCHANGED <<manifest, linesep, disk, bak, idx, content, total, migrated,
                   skipped, run, orig, startDisk, startBak, outcome,
                   prevOutcome, prevDone, failedAt>>

NextScope == GetScope

SpecScope == InitScope /\ [][NextScope]_vars

---------------------------------------------------------------------------
(* Properties. *)

\* the text of entry i when the current invocation started
StartText(i) == Decode(startDisk[i])

\* the text of entry i now
NowText(i) == Decode(disk[i])

\* number of calls console.<level>( in text
CallCount(text, level) == Count(text, <<level, PAREN>>)

NoCalls(text) == \A level \in ConsoleLevels : CallCount(text, level) = 0

\* C1: whenever the current invocation has changed an original file, the
\* file's backup exists and holds exactly what the file held before.
C1_BackupFidelity ==
    \A i \in Entries : disk[i] # startDisk[i] => bak[i] = startDisk[i]

\* C2: an invocation that follows one that ran to its summary changes no
\* original and no backup, migrates nothing, and skips as already migrated
\* every entry the previous invocation migrated.
C2_SecondRunNoOp ==
    (prevDone /\ run >= 2) =>
        /\ disk = startDisk
        /\ bak = startBak
        /\ migrated = 0
        /\ \A i \in Entries :
              (prevOutcome[i] = "migrated" /\ (idx > i \/ pc = "done"))
                  => outcome[i] = "already"

C2_Witness ==
    /\ prevDone /\ run >= 2 /\ pc = "done"
    /\ \E i \in Entries : prevOutcome[i] = "migrated" /\ outcome[i] = "already"

\* C3: an existing file that does not name the logger module and holds no
\* call console.<level>( is left unchanged, gets no backup and is reported
\* as having no console statements.
C3_ConservativeApplicability ==
    \A i \in Entries :
        (/\ startDisk[i] # Missing
         /\ ~AlreadyMigrated(StartText(i))
         /\ NoCalls(StartText(i)))
        => /\ disk[i] = startDisk[i]
           /\ bak[i] = startBak[i]
           /\ outcome[i] \in {"none", "nomatch"}

\* the import lines of the claim: the trimmed line begins with the import
\* keyword; a type-only import goes on with the keyword type
IsImport(line) == StartsAt(Strip(line), 1, <<IMPORT>>)
IsTypeOnlyImport(line) == StartsAt(Strip(line), 1, <<IMPORT, TYPE, SP>>)

\* the indices of the import lines of text that are not type-only imports
PlainImports(text) ==
    {k \in 1..Len(Split(text, LF)) :
        /\ IsImport(Split(text, LF)[k])
        /\ ~IsTypeOnlyImport(Split(text, LF)[k])}

HasNoImport(text) ==
    \A k \in 1..Len(Split(text, LF)) : ~IsImport(Split(text, LF)[k])

\* the place of the snippet as the claim has it: a line inserted in the
\* array of lines, or the snippet and a blank line before the content
PlacedAsClaimed(text, stmt) ==
    LET lines == Split(text, LF)
        imps  == PlainImports(text)
        last  == CHOOSE k \in imps : \A j \in imps : k >= j
    IN  IF imps # {}
        THEN Join(SubSeq(lines, 1, last) \o <<stmt>>
                    \o SubSeq(lines, last + 1, Len(lines)), LF)
        ELSE stmt \o <<LF>> \o text

\* C4: in a migrated file the snippet follows the last import line that is
\* not a type-only import, or is put first (and a blank line after it) when
\* the file has no import line; the original lines keep their order and,
\* but for the calls replaced, their text.
C4_ImportPlacement ==
    \A i \in Entries :
        (/\ outcome[i] = "migrated"
         /\ PlainImports(StartText(i)) # {} \/ HasNoImport(StartText(i)))
        => NowText(i) = Substitute(PlacedAsClaimed(StartText(i),
                                      import_statement(get_scope(manifest[i]))))

\* a path under a services directory whose base name contains ValidationService
UnderServices(filepath) ==
    \/ StartsAt(filepath, 1, <<"services", SLASH>>)
    \/ Contains(filepath, <<SLASH, "services", SLASH>>)

IsValidationServicePath(filepath) ==
    /\ UnderServices(filepath)
    /\ Contains(PathName(filepath), <<"ValidationService">>)

\* C5 as claimed: every path under a services directory whose base name
\* contains ValidationService gets the label validation:<basename>.
C5_ScopePrecedence ==
    (pc = "scoped" /\ IsValidationServicePath(manifest[1]))
        => scope = <<"validation:">> \o PathStem(manifest[1])

\* C5 amended: such a path gets validation:<basename> unless it contains
\* "api/", in which case the API rule, which is tested first, labels it; in
\* no case does it get a service: label.
C5_ScopePrecedenceAfterApi ==
    (pc = "scoped" /\ IsValidationServicePath(manifest[1]))
        => /\ scope # None
           /\ scope[1] # "service:"
           /\ IF Contains(manifest[1], <<"api", SLASH>>)
              THEN scope[1] \in {"api:", "api:unknown"}
              ELSE scope = <<"validation:">> \o PathStem(manifest[1])

C5_Witness ==
    /\ pc = "scoped"
    /\ IsValidationServicePath(manifest[1])
    /\ ~Contains(manifest[1], <<"api", SLASH>>)
    /\ scope = <<"validation:", "x", "ValidationService">>

NoCallsLeft(i) == NoCalls(NowText(i))

\* C6 as claimed: a migrated file holds no call console.<level>( and N + P
\* calls logger.info(, for N calls console.log( and P calls logger.info(
\* before.
C6_SubstitutionCompleteness ==
    \A i \in Entries :
        outcome[i] = "migrated" =>
            /\ NoCallsLeft(i)
            /\ Count(NowText(i), <<"logger.info", PAREN>>)
                 = CallCount(StartText(i), "console.log")
                   + Count(StartText(i), <<"logger.info", PAREN>>)

\* C6 amended: the migrated file holds N + I + P calls logger.info(, I being
\* the number of calls console.info( before, which are mapped to logger.info(
\* as well.
C6_SubstitutionCompletenessWithInfo ==
    \A i \in Entries :
        outcome[i] = "migrated" =>
            /\ NoCallsLeft(i)
            /\ Count(NowText(i), <<"logger.info", PAREN>>)
                 = CallCount(StartText(i), "console.log")
                   + CallCount(StartText(i), "console.info")
                   + Count(StartText(i), <<"logger.info", PAREN>>)

C6_Witness ==
    \E i \in Entries :
        /\ outcome[i] = "migrated"
        /\ CallCount(StartText(i), "console.log") >= 1
        /\ CallCount(StartText(i), "console.info") >= 1
        /\ Count(StartText(i), <<"logger.info", PAREN>>) >= 1
        /\ Count(NowText(i), <<"logger.info", PAREN>>) = 3

\* C7: an I/O error at entry k ends the invocation at k: the counters stay
\* as they were, the entries after k are untouched, and the entries migrated
\* before k stay migrated, with their backups.
C7_AbortOnIOFailure ==
    failedAt # 0 =>
        /\ pc = "aborted"
        /\ idx = failedAt
        /\ total = failedAt
        /\ migrated + skipped = failedAt - 1
        /\ \A j \in Entries :
              j > failedAt =>
                  /\ disk[j] = startDisk[j]
                  /\ bak[j] = startBak[j]
                  /\ outcome[j] = "none"
        /\ \A j \in Entries :
              (j < failedAt /\ outcome[j] = "migrated") =>
                  /\ bak[j] # Missing
                  /\ disk[j] = Encode(Transform(manifest[j], StartText(j)))

C7_Witness ==
    /\ failedAt = 2
    /\ pc = "aborted"
    /\ outcome[1] = "migrated"
    /\ disk[2] # startDisk[2]

\* C8: a skipped entry leaves its file and its backup as they were, counts
\* as skipped, raises nothing, and the loop goes on; a missing file is not
\* created.
C8_SkipsHaveNoEffect ==
    /\ \A i \in Entries :
          outcome[i] \in Skips =>
              /\ disk[i] = startDisk[i]
              /\ bak[i] = startBak[i]
              /\ outcome[i] = "missing" => disk[i] = Missing
              /\ failedAt # i
              /\ idx > i \/ (idx = i /\ pc \in {"loop", "done"})
    /\ failedAt = 0 =>
          skipped = Cardinality({i \in Entries : outcome[i] \in Skips})

C8_Witness ==
    \E i \in Entries :
        /\ outcome[i] = "missing"
        /\ idx > i
        /\ outcome[idx] = "migrated"

\* C9: after each entry migrated + skipped = total, migrated counts the
\* files overwritten by this invocation, and the summary is reached with
\* every entry processed once, in order.
C9_CounterInvariant ==
    /\ pc \in {"loop", "done"} =>
          /\ migrated + skipped = total
          /\ total = idx
          /\ migrated = Cardinality({i \in Entries : disk[i] # startDisk[i]})
          /\ \A i \in Entries : (i <= idx) <=> (outcome[i] # "none")
    /\ pc = "done" => total = Len(manifest)

C9_Witness ==
    /\ pc = "done"
    /\ total = Len(manifest)
    /\ migrated >= 1
    /\ skipped >= 1

\* C10: over all invocations, aborted ones included, once a file differs
\* from what it held before the first invocation and its backup holds
\* exactly that, no later step of any invocation replaces the backup.
C10_BackupNeverReplaced ==
    [][\A i \in Entries :
          (orig[i] # Missing /\ disk[i] # orig[i] /\ bak[i] = orig[i])
              => bak'[i] = bak[i]]_vars

\* the state form of the same: a file that differs from what it held before
\* the first invocation has a backup that holds exactly that
RecoverableFromBackup ==
    \A i \in Entries :
        (orig[i] # Missing /\ disk[i] # orig[i]) => bak[i] = orig[i]

====
